---- MODULE Spec2Model ----
(***************************************************************************)
(* Subscription-to-membership reconciliation engine of bot.py: ingestion   *)
(* of payment export artifacts into the ledger, storage-bounded retention  *)
(* of the artifacts, and reconciliation of the ledger against the group.   *)
(*                                                                         *)
(* Timestamps are civil datetimes [year, month, day, hour, minute, second] *)
(* and are compared and shifted through their proleptic Gregorian ordinal, *)
(* as datetime does.  Text fields of an artifact row are strings; a        *)
(* payment_date text is a sequence of characters so that strptime is a     *)
(* real parse.  SQLite's datetime('now') and Python's datetime.now() are   *)
(* read from one clock, now (the host keeps UTC).                          *)
(*                                                                         *)
(* The coroutines share one event loop: a coroutine runs from one await to *)
(* the next without interruption, and the handlers of updates run one      *)
(* after the other (the Application is built without concurrent_updates).  *)
(*                                                                         *)
(* Spec is the whole system.  SpecIngest, SpecCycle and SpecLedger are the *)
(* parts of it that the properties at the end of the module are checked    *)
(* under.                                                                  *)
(***************************************************************************)
EXTENDS Integers, Sequences, FiniteSets, TLC

\* ------------------------------------------------------------------------
\* Program constants
\* ------------------------------------------------------------------------
MAX_STORAGE_MB == 300
RESERVED_STORAGE_MB == 50
LOW_STORAGE_MB == 10
ADMIN_IDS == {9}
ActiveStatuses == {"member", "administrator", "creator"}
MonthlyDays == 29
MonthlyHours == 24
YearlyDays == 364
YearlyHours == 24
OneTimeDays == 365 * 10
NoticeDays == 3

\* ------------------------------------------------------------------------
\* Bounds of the model
\* ------------------------------------------------------------------------
MaxUserId == 2
MaxDownloads == 2
MaxTicks == 1
TickDays == 30
DatabaseMB == 20

UserIds == 1..MaxUserId

\* ------------------------------------------------------------------------
\* datetime and timedelta
\* ------------------------------------------------------------------------
DT(y, mo, d, h, mi, s) ==
    [year |-> y, month |-> mo, day |-> d, hour |-> h, minute |-> mi, second |-> s]

IsLeap(y) == y % 4 = 0 /\ (y % 100 # 0 \/ y % 400 = 0)

DaysInMonth(y, m) ==
    IF m = 2 THEN (IF IsLeap(y) THEN 29 ELSE 28)
    ELSE IF m \in {4, 6, 9, 11} THEN 30 ELSE 31

DaysBeforeYear(y) ==
    LET p == y - 1 IN p * 365 + (p \div 4) - (p \div 100) + (p \div 400)

RECURSIVE DaysBeforeMonth(_, _)
DaysBeforeMonth(y, m) ==
    IF m = 1 THEN 0 ELSE DaysBeforeMonth(y, m - 1) + DaysInMonth(y, m - 1)

ToOrdinal(dt) == DaysBeforeYear(dt.year) + DaysBeforeMonth(dt.year, dt.month) + dt.day

SecondOfDay(dt) == dt.hour * 3600 + dt.minute * 60 + dt.second

RECURSIVE YearOfOrdinal(_, _)
YearOfOrdinal(n, y) ==
    IF n > DaysBeforeYear(y + 1) THEN YearOfOrdinal(n, y + 1) ELSE y

RECURSIVE MonthOfOrdinal(_, _, _)
MonthOfOrdinal(n, y, m) ==
    IF m < 12 /\ n > DaysBeforeYear(y) + DaysBeforeMonth(y, m + 1)
    THEN MonthOfOrdinal(n, y, m + 1) ELSE m

FromOrdinal(n, sec) ==
    LET y == YearOfOrdinal(n, (n \div 366) + 1)
        m == MonthOfOrdinal(n, y, 1)
        d == n - DaysBeforeYear(y) - DaysBeforeMonth(y, m)
    IN DT(y, m, d, sec \div 3600, (sec % 3600) \div 60, sec % 60)

\* a timedelta that drops its hours argument
TimedeltaDaysOnly(d, h) == [days |-> d, seconds |-> 0]

\* timedelta(days=d, hours=h), normalised to days and seconds
Timedelta(d, h) == [days |-> d + (h \div 24), seconds |-> (h % 24) * 3600]

\* datetime + timedelta
DatetimeAdd(dt, td) ==
    LET sec == SecondOfDay(dt) + td.seconds
    IN FromOrdinal(ToOrdinal(dt) + td.days + (sec \div 86400), sec % 86400)

\* a < b on datetimes
Before(a, b) ==
    LET x == <<a.year, a.month, a.day, a.hour, a.minute, a.second>>
        y == <<b.year, b.month, b.day, b.hour, b.minute, b.second>>
    IN \E i \in 1..6 : x[i] < y[i] /\ \A j \in 1..(i - 1) : x[j] = y[j]

\* ------------------------------------------------------------------------
\* Text of an artifact row
\* ------------------------------------------------------------------------
Absent == "<absent>"

\* row.get(key, default)
Get(row, key, default) == IF row[key] = Absent THEN default ELSE row[key]

DigitVal ==
    ("0" :> 0) @@ ("1" :> 1) @@ ("2" :> 2) @@ ("3" :> 3) @@ ("4" :> 4) @@
    ("5" :> 5) @@ ("6" :> 6) @@ ("7" :> 7) @@ ("8" :> 8) @@ ("9" :> 9)

IsDigits(s, lo, hi) == \A i \in lo..hi : s[i] \in DOMAIN DigitVal

RECURSIVE Number(_, _, _)
Number(s, lo, hi) ==
    IF hi < lo THEN 0 ELSE Number(s, lo, hi - 1) * 10 + DigitVal[s[hi]]

\* datetime.strptime(text, '%Y-%m-%d %H:%M:%S') on zero-padded text;
\* ok = FALSE stands for ValueError
Strptime(s) ==
    IF /\ Len(s) = 19
       /\ s[5] = "-" /\ s[8] = "-" /\ s[11] = " " /\ s[14] = ":" /\ s[17] = ":"
       /\ IsDigits(s, 1, 4) /\ IsDigits(s, 6, 7) /\ IsDigits(s, 9, 10)
       /\ IsDigits(s, 12, 13) /\ IsDigits(s, 15, 16) /\ IsDigits(s, 18, 19)
    THEN LET y == Number(s, 1, 4)
             mo == Number(s, 6, 7)
             d == Number(s, 9, 10)
             h == Number(s, 12, 13)
             mi == Number(s, 15, 16)
             sc == Number(s, 18, 19)
         IN IF /\ y >= 1 /\ mo \in 1..12 /\ d >= 1 /\ d <= DaysInMonth(y, mo)
               /\ h <= 23 /\ mi <= 59 /\ sc <= 61
            THEN [ok |-> TRUE, val |-> DT(y, mo, d, h, mi, sc)]
            ELSE [ok |-> FALSE, val |-> DT(1, 1, 1, 0, 0, 0)]
    ELSE [ok |-> FALSE, val |-> DT(1, 1, 1, 0, 0, 0)]

IntText == ("0" :> 0) @@ ("1" :> 1) @@ ("2" :> 2) @@ ("3" :> 3)

\* int(text); ok = FALSE stands for ValueError
ParseInt(s) ==
    IF s \in DOMAIN IntText THEN [ok |-> TRUE, val |-> IntText[s]]
    ELSE [ok |-> FALSE, val |-> 0]

FloatTexts == {"0", "10.00", "25.50"}

\* float(text) succeeds
FloatOk(s) == s \in FloatTexts

LowerText ==
    ("monthly" :> "monthly") @@ ("Monthly" :> "monthly") @@
    ("yearly" :> "yearly") @@ ("YEARLY" :> "yearly") @@
    ("one_time" :> "one_time") @@ ("" :> "")

\* str.lower()
Lower(s) == IF s \in DOMAIN LowerText THEN LowerText[s] ELSE s

\* ------------------------------------------------------------------------
\* Artifacts the upstream platform can deliver.  An artifact is the rows
\* the csv reader yields, whether the reader then raises (an undecodable
\* byte or an oversized field further down the file), and its size in MB.
\* download_selar_csv as shipped writes one sample row (a completed monthly
\* payment with an old date, like the first row below); the pool stands for
\* the exports the platform integration puts in its place.
\* ------------------------------------------------------------------------
Chars(y1, y2, y3, y4, m1, m2, d1, d2) ==
    <<y1, y2, y3, y4, "-", m1, m2, "-", d1, d2, " ", "0", "0", ":", "0", "0", ":", "0", "0">>

OldText == Chars("2", "0", "2", "4", "0", "1", "0", "1")
RecentText == Chars("2", "0", "2", "4", "0", "2", "0", "1")
BadText == Chars("2", "0", "2", "4", "0", "2", "3", "0")

Row(o, u, tg, fn, txn, dt, sub, st) ==
    [order_id |-> o, selar_order_id |-> Absent, user_id |-> u, telegram_id |-> tg,
     first_name |-> fn, amount |-> "10.00", status |-> st, transaction_id |-> txn,
     payment_date |-> dt, subscription_type |-> sub]

Artifact(rs, fail, mb) == [rows |-> rs, readFail |-> fail, size |-> mb]

Pool ==
    << Artifact(<< Row("A", "1", Absent, "Ann", "T1", OldText, "monthly", "completed"),
                   Row("B", "x", "2", "Bob", "T2", RecentText, "monthly", "completed"),
                   Row("C", "1", Absent, "Anna", "T3", RecentText, "Monthly", "completed"),
                   Row("A", "2", Absent, "Bob", "T4", RecentText, "monthly", "completed"),
                   Row("I", "1", Absent, "Ann", "T6", RecentText, "yearly", "completed") >>,
                FALSE, 240),
       Artifact(<< Row("D", "2", Absent, "Bob", "T1", RecentText, "yearly", "completed"),
                   Row("", "2", Absent, "Bob", "T5", RecentText, "monthly", "completed"),
                   Row("E", "2", Absent, "Bo", "", BadText, "one_time", "pending"),
                   Row("F", "0", "2", "Bob", "", OldText, "monthly", "completed"),
                   Row("A", "1", Absent, "Ann", "T9", OldText, "monthly", "completed"),
                   Row("H", "1", Absent, "Ann", "T8", OldText, "monthly", "completed") >>,
                FALSE, 220),
       Artifact(<< Row("G", "2", Absent, "Bob", "T7", OldText, "monthly", "completed") >>,
                TRUE, 20) >>

ArtIds == 1..Len(Pool)

\* ------------------------------------------------------------------------
\* Ingestion Pipeline: process_csv_file
\* ------------------------------------------------------------------------
\* row.get('order_id', '') or row.get('selar_order_id', '')
RowOrderId(row) ==
    IF Get(row, "order_id", "") # "" THEN Get(row, "order_id", "")
    ELSE Get(row, "selar_order_id", "")

\* SELECT COUNT(*) FROM payments WHERE selar_order_id = ?  ... > 0
OrderSeen(pay, oid) == \E p \in pay : p.selar_order_id = oid

\* the UNIQUE columns of table payments reject the insert
UniqueViolation(pay, txn, oid) ==
    \E p \in pay : p.transaction_id = txn \/ p.selar_order_id = oid

\* int(row.get('user_id', 0)) or int(row.get('telegram_id', 0))
RowUserId(row) ==
    LET u == ParseInt(Get(row, "user_id", "0"))
    IN IF ~u.ok THEN u
       ELSE IF u.val # 0 THEN u
       ELSE ParseInt(Get(row, "telegram_id", "0"))

\* the expiry without the .lower() on the subscription type
ExpiresDateCaseSensitive(subscription_type, payment_date) ==
    IF subscription_type = "monthly"
    THEN DatetimeAdd(payment_date, Timedelta(MonthlyDays, MonthlyHours))
    ELSE IF subscription_type = "yearly"
    THEN DatetimeAdd(payment_date, Timedelta(YearlyDays, YearlyHours))
    ELSE DatetimeAdd(payment_date, Timedelta(OneTimeDays, 0))

\* payment_date + timedelta(...) by subscription type
ExpiresDate(subscription_type, payment_date) ==
    IF Lower(subscription_type) = "monthly"
    THEN DatetimeAdd(payment_date, Timedelta(MonthlyDays, MonthlyHours))
    ELSE IF Lower(subscription_type) = "yearly"
    THEN DatetimeAdd(payment_date, Timedelta(YearlyDays, YearlyHours))
    ELSE DatetimeAdd(payment_date, Timedelta(OneTimeDays, 0))

\* strptime, falling back to datetime.now()
PaymentDate(text, nowdt) ==
    IF Strptime(text).ok THEN Strptime(text).val ELSE nowdt

\* INSERT OR IGNORE INTO users
InsertUserOrIgnore(usr, uid, fn) ==
    IF uid \in DOMAIN usr THEN usr
    ELSE [v \in DOMAIN usr \cup {uid} |->
            IF v = uid THEN [first_name |-> fn, in_group |-> FALSE] ELSE usr[v]]

NewPayment(pay, uid, row, nowdt) ==
    LET sub == Get(row, "subscription_type", "one_time")
        pd == PaymentDate(row.payment_date, nowdt)
    IN [payment_id |-> Cardinality(pay) + 1,
        user_id |-> uid,
        status |-> Get(row, "status", "completed"),
        transaction_id |-> Get(row, "transaction_id", ""),
        selar_order_id |-> RowOrderId(row),
        payment_date |-> pd,
        subscription_type |-> sub,
        expires_date |-> ExpiresDate(sub, pd)]

\* the row loop's iteration without the SELECT on the order identifier and
\* without the UNIQUE columns
ProcessRowNoDedup(tx, row, nowdt, locked) ==
    IF RowOrderId(row) = "" THEN tx
    ELSE IF ~RowUserId(row).ok THEN tx
    ELSE IF RowUserId(row).val = 0 THEN tx
    ELSE IF ~FloatOk(Get(row, "amount", "0")) THEN tx
    ELSE IF locked THEN tx
    ELSE LET uid == RowUserId(row).val
         IN [users |-> InsertUserOrIgnore(tx.users, uid, Get(row, "first_name", "")),
             payments |-> tx.payments \cup {NewPayment(tx.payments, uid, row, nowdt)},
             count |-> tx.count + 1, wrote |-> TRUE]

\* One iteration of the row loop on the open transaction tx =
\* [users, payments, count, wrote]; locked: another connection holds the
\* write lock, so the first write statement raises OperationalError.
ProcessRow(tx, row, nowdt, locked) ==
    IF RowOrderId(row) = "" THEN tx
    ELSE IF OrderSeen(tx.payments, RowOrderId(row)) THEN tx
    ELSE IF ~RowUserId(row).ok THEN tx
    ELSE IF RowUserId(row).val = 0 THEN tx
    ELSE IF ~FloatOk(Get(row, "amount", "0")) THEN tx
    ELSE IF locked THEN tx
    ELSE LET uid == RowUserId(row).val
             usr == InsertUserOrIgnore(tx.users, uid, Get(row, "first_name", ""))
             pay == NewPayment(tx.payments, uid, row, nowdt)
         IN IF UniqueViolation(tx.payments, pay.transaction_id, pay.selar_order_id)
            THEN [tx EXCEPT !.users = usr, !.wrote = TRUE]
            ELSE [users |-> usr, payments |-> tx.payments \cup {pay},
                  count |-> tx.count + 1, wrote |-> TRUE]

\* the row loop; rows before index free run while the write lock is held
\* by an abandoned connection, the rows from free on run after its release
RECURSIVE RowLoop(_, _, _, _, _)
RowLoop(tx, rows, i, nowdt, free) ==
    IF i > Len(rows) THEN tx
    ELSE RowLoop(ProcessRow(tx, rows[i], nowdt, i < free), rows, i + 1, nowdt, free)

\* process_csv_file: the ledger after the call, the returned count, and
\* whether the call leaves an uncommitted connection holding the write lock
ProcessCsvFile(usr, pay, art, nowdt, held, free) ==
    LET tx == RowLoop([users |-> usr, payments |-> pay, count |-> 0, wrote |-> FALSE],
                      art.rows, 1, nowdt, IF held THEN free ELSE 1)
        stillHeld == held /\ free > Len(art.rows)
    IN IF art.readFail
       THEN [users |-> usr, payments |-> pay, count |-> tx.count,
             dangling |-> stillHeld \/ tx.wrote]
       ELSE [users |-> tx.users, payments |-> tx.payments, count |-> tx.count,
             dangling |-> stillHeld]

\* ------------------------------------------------------------------------
\* State
\* ------------------------------------------------------------------------
VARIABLES
    users,                  \* table users: user_id -> [first_name, in_group]
    payments,               \* table payments: set of rows
    group_members,          \* table group_members: user_id -> status
    download_history,       \* table download_history: filename -> row
    storage_usage,          \* table storage_usage: the snapshots recorded
    files,                  \* selar_export_*.csv on disk: filename -> artifact
    nextName,               \* the next export filename (a sortable timestamp)
    chat,                   \* the external group: user_id -> member status
    now,                    \* the wall clock
    processing,             \* self.processing
    credentials_configured, \* self.credentials_configured
    awaiting_credentials,   \* self.awaiting_credentials
    dangling,               \* an abandoned connection holds the write lock
    cmds,                   \* updates handled so far
    pc,                     \* where each coroutine stands
    cmdKind,                \* the handler that is running
    work,                   \* rows of the query a loop still has to visit
    cur,                    \* the row a loop is visiting
    added,                  \* added_count
    removed,                \* removed_count
    batch,                  \* csv_files /process still has to ingest
    processed_count,        \* processed_count of /process
    lastIngest,             \* the last process_csv_file call: artifact, count
    clean,                  \* no call of the running reconciliation has raised
    sent,                   \* users the notice cycle has messaged
    fetch_failed,           \* get_chat_members raised in the running reconciliation
    acted,                  \* users whose add or ban call the running loop saw return
    undelayed,              \* a mutating call of the running loop has no delay after it yet
    contributed,            \* records each file of the running /process batch inserted
    update_queue,           \* the /process updates waiting for the handler coroutine
    joined                  \* users add_chat_member accepted in the running reconciliation

ledger == <<users, payments, group_members, download_history, storage_usage>>
disk == <<files, nextName>>
bot == <<processing, credentials_configured, awaiting_credentials, cmds, cmdKind>>
loops == <<work, cur, added, removed>>
ingest == <<batch, processed_count, lastIngest>>
aux == <<clean, sent, fetch_failed, acted, undelayed, contributed, update_queue, joined>>
vars == <<ledger, disk, bot, loops, ingest, aux, chat, now, dangling, pc>>

MaxCommands == 2

\* the updates that may wait while a handler runs
MaxQueued == 1

Tasks == {"cmd", "agm", "dl", "sweep", "notice"}
Callers == ADMIN_IDS \cup {1}
StartNow == DT(2024, 2, 29, 0, 0, 0)
ListedStatuses == {"member", "administrator", "creator", "restricted"}
\* the group before the bot starts: nobody in it, or user 1 a member and
\* everybody else restricted
InitialChats ==
    { [u \in UserIds |-> "left"],
      [u \in UserIds |-> IF u = 1 THEN "member" ELSE "restricted"] }
NoRow == [user_id |-> 0, order_id |-> ""]

\* a coroutine at one of these is suspended in an await
Suspended ==
    {"idle", "sleep", "proc_start", "proc_nofiles", "proc_error", "proc_reply",
     "dlc_start", "addc_start", "cg_fetch", "add_check", "add_call", "add_sleep",
     "rem_call", "rem_sleep", "agm_notify", "cmd_reply", "backoff"}

\* the event loop runs t: no other coroutine is between two awaits
Turn(t) == \A o \in Tasks \ {t} : pc[o] \in Suspended

Flow(t) == IF t = "cmd" THEN cmdKind ELSE t

Init ==
    /\ users = <<>>
    /\ payments = {}
    /\ group_members = <<>>
    /\ download_history = <<>>
    /\ storage_usage = {}
    /\ files = <<>>
    /\ nextName = 1
    /\ chat \in InitialChats
    /\ now = StartNow
    /\ processing = FALSE
    /\ credentials_configured \in BOOLEAN
    /\ awaiting_credentials = {}
    /\ dangling = FALSE
    /\ cmds = 0
    /\ pc = [t \in Tasks |-> IF t = "cmd" THEN "idle" ELSE "sleep"]
    /\ cmdKind = "none"
    /\ work = [t \in Tasks |-> {}]
    /\ cur = [t \in Tasks |-> NoRow]
    /\ added = [t \in Tasks |-> 0]
    /\ removed = [t \in Tasks |-> 0]
    /\ batch = {}
    /\ processed_count = 0
    /\ lastIngest = [art |-> 0, count |-> 0]
    /\ clean = [t \in Tasks |-> TRUE]
    /\ fetch_failed = [t \in Tasks |-> FALSE]
    /\ acted = [t \in Tasks |-> {}]
    /\ undelayed = [t \in Tasks |-> FALSE]
    /\ contributed = <<>>
    /\ update_queue = <<>>
    /\ joined = [t \in Tasks |-> {}]
    /\ sent = {}

\* ------------------------------------------------------------------------
\* Quota Manager
\* ------------------------------------------------------------------------
RECURSIVE SumSizes(_, _)
SumSizes(fs, names) ==
    IF names = {} THEN 0
    ELSE LET n == CHOOSE x \in names : TRUE
         IN Pool[fs[n]].size + SumSizes(fs, names \ {n})

\* the breakdown calculate_storage_usage measures
StorageInfo(fs) ==
    LET csv == SumSizes(fs, DOMAIN fs)
    IN [total_used_mb |-> csv + DatabaseMB, csv_files_mb |-> csv,
        database_mb |-> DatabaseMB,
        available_mb |-> MAX_STORAGE_MB - (csv + DatabaseMB)]

\* calculate_storage_usage: the INSERT of the snapshot raises while the
\* write lock is held, and the function then returns None (ok = FALSE)
CalculateStorageUsage(fs, held) == [ok |-> ~held, info |-> StorageInfo(fs)]

\* the table storage_usage after calculate_storage_usage
Recorded(su, fs, held) == IF held THEN su ELSE su \cup {StorageInfo(fs)}

\* should_download_more_data
ShouldDownloadMoreData(fs, held) ==
    IF ~CalculateStorageUsage(fs, held).ok THEN TRUE
    ELSE CalculateStorageUsage(fs, held).info.available_mb > RESERVED_STORAGE_MB

\* the file cleanup_oldest_csv deletes: the oldest modification time
OldestFile(fs) == CHOOSE n \in DOMAIN fs : \A m \in DOMAIN fs : n <= m

\* cleanup_oldest_csv sorting by modification time in descending order
CleanupNewestCsv(fs, removable) ==
    IF DOMAIN fs = {} \/ ~removable THEN [ok |-> FALSE, files |-> fs]
    ELSE [ok |-> TRUE,
          files |-> [n \in DOMAIN fs \ {CHOOSE x \in DOMAIN fs : \A m \in DOMAIN fs : m <= x}
                        |-> fs[n]]]

\* cleanup_oldest_csv: the files left, and whether a file was deleted;
\* os.remove raising (removable = FALSE) is caught and False returned
CleanupOldestCsv(fs, removable) ==
    IF DOMAIN fs = {} \/ ~removable THEN [ok |-> FALSE, files |-> fs]
    ELSE [ok |-> TRUE,
          files |-> [n \in DOMAIN fs \ {OldestFile(fs)} |-> fs[n]]]

\* download_selar_csv: artifact a arrives as file name when fetched, and
\* the call returns (False, error) otherwise
DownloadSelarCsv(fs, name, a, fetched) ==
    IF fetched
    THEN [ok |-> TRUE, error |-> "",
          files |-> [n \in DOMAIN fs \cup {name} |-> IF n = name THEN a ELSE fs[n]]]
    ELSE [ok |-> FALSE, error |-> "download failed", files |-> fs]

\* download_with_storage_management: the files after it, whether it
\* fetched, and the snapshots it recorded
DownloadWithStorageManagement(fs, su, held, name, a, fetched, removable) ==
    LET su1 == Recorded(su, fs, held)
        kept == CleanupOldestCsv(fs, removable)
    IN IF ShouldDownloadMoreData(fs, held)
       THEN [ok |-> DownloadSelarCsv(fs, name, a, fetched).ok,
             error |-> DownloadSelarCsv(fs, name, a, fetched).error,
             files |-> DownloadSelarCsv(fs, name, a, fetched).files,
             storage_usage |-> su1]
       ELSE IF ~kept.ok
       THEN [ok |-> FALSE, error |-> "Storage limit reached", files |-> fs,
             storage_usage |-> su1]
       ELSE [ok |-> DownloadSelarCsv(kept.files, name, a, fetched).ok,
             error |-> DownloadSelarCsv(kept.files, name, a, fetched).error,
             files |-> DownloadSelarCsv(kept.files, name, a, fetched).files,
             storage_usage |-> su1]

\* INSERT INTO download_history ... 0, 'downloaded'
RecordDownload(dh, name) ==
    [n \in DOMAIN dh \cup {name} |->
        IF n = name THEN [payments_processed |-> 0, status |-> "downloaded"] ELSE dh[n]]

\* ------------------------------------------------------------------------
\* Roster Reconciler
\* ------------------------------------------------------------------------
\* the roster get_chat_members yields
Roster == [u \in {v \in UserIds : chat[v] \in ListedStatuses} |-> chat[u]]

\* check_group_members: UPDATE users SET in_group
SetInGroup(usr, ids) ==
    [u \in DOMAIN usr |-> [usr[u] EXCEPT !.in_group = (u \in ids)]]

JoinRow(p) == [user_id |-> p.user_id, order_id |-> p.selar_order_id]

\* the join of find_missing_group_members without its status condition
FindMissingAnyStatus(usr, pay, nowdt) ==
    { JoinRow(p) : p \in { q \in pay :
        /\ q.user_id \in DOMAIN usr
        /\ ~usr[q.user_id].in_group
        /\ Before(nowdt, q.expires_date) } }

\* find_missing_group_members: the rows of the join
FindMissingGroupMembers(usr, pay, nowdt) ==
    { JoinRow(p) : p \in { q \in pay :
        /\ q.user_id \in DOMAIN usr
        /\ q.status = "completed"
        /\ ~usr[q.user_id].in_group
        /\ Before(nowdt, q.expires_date) } }

\* find_expired_users_in_group: the rows of the join
FindExpiredUsersInGroup(usr, pay, nowdt) ==
    { JoinRow(p) : p \in { q \in pay :
        /\ q.user_id \in DOMAIN usr
        /\ usr[q.user_id].in_group
        /\ Before(q.expires_date, nowdt)
        /\ q.status = "completed" } }

\* ------------------------------------------------------------------------
\* Environment
\* ------------------------------------------------------------------------
\* time passes while every coroutine is suspended
Tick ==
    /\ \A t \in Tasks : pc[t] \in Suspended
    /\ ToOrdinal(now) - ToOrdinal(StartNow) < MaxTicks * TickDays
    /\ now' = DatetimeAdd(now, Timedelta(TickDays, 0))
    /\ UNCHANGED <<aux, ledger, disk, bot, loops, ingest, chat, dangling, pc>>

\* the garbage collector frees an abandoned connection: its transaction is
\* rolled back and the write lock released
GcCollect ==
    /\ dangling
    /\ dangling' = FALSE
    /\ UNCHANGED <<aux, ledger, disk, bot, loops, ingest, chat, now, pc>>

\* ------------------------------------------------------------------------
\* /configure and the credentials message
\* ------------------------------------------------------------------------
ConfigureCredentials(caller) ==
    /\ pc["cmd"] = "idle" /\ Turn("cmd") /\ cmds < MaxCommands
    /\ update_queue = <<>>
    /\ cmds' = cmds + 1
    /\ awaiting_credentials' =
         IF caller \in ADMIN_IDS THEN awaiting_credentials \cup {caller}
         ELSE awaiting_credentials
    /\ UNCHANGED <<aux, ledger, disk, processing, credentials_configured, cmdKind,
                   loops, ingest, chat, now, dangling, pc>>

\* handle_message: hasColon is ':' in text, saved is save_credentials()
HandleMessage(caller, hasColon, saved) ==
    /\ pc["cmd"] = "idle" /\ Turn("cmd") /\ cmds < MaxCommands
    /\ update_queue = <<>>
    /\ cmds' = cmds + 1
    /\ IF caller \in awaiting_credentials /\ hasColon
       THEN /\ credentials_configured' = (credentials_configured \/ saved)
            /\ awaiting_credentials' = awaiting_credentials \ {caller}
       ELSE UNCHANGED <<credentials_configured, awaiting_credentials>>
    /\ UNCHANGED <<aux, ledger, disk, processing, cmdKind, loops, ingest, chat, now,
                   dangling, pc>>

\* ------------------------------------------------------------------------
\* /download and the automatic ingestion cycle
\* ------------------------------------------------------------------------
\* download_csv up to its first reply
DownloadCsv(caller) ==
    /\ pc["cmd"] = "idle" /\ Turn("cmd") /\ cmds < MaxCommands
    /\ update_queue = <<>>
    /\ cmds' = IF caller \in ADMIN_IDS /\ credentials_configured THEN cmds + 1 ELSE cmds
    /\ IF caller \in ADMIN_IDS /\ credentials_configured
       THEN /\ pc' = [pc EXCEPT !["cmd"] = "dlc_start"]
            /\ cmdKind' = "download"
       ELSE UNCHANGED <<pc, cmdKind>>
    /\ UNCHANGED <<aux, ledger, disk, processing, credentials_configured,
                   awaiting_credentials, loops, ingest, chat, now, dangling>>

\* download_csv after the reply: fetch and record; the INSERT into
\* download_history raises out of the handler while the write lock is held
DownloadCsvRun(a, removable) ==
    /\ pc["cmd"] = "dlc_start" /\ Turn("cmd")
    /\ nextName <= MaxDownloads
    /\ LET r == DownloadWithStorageManagement(files, storage_usage, dangling,
                                              nextName, a, TRUE, removable)
       IN /\ files' = r.files
          /\ storage_usage' = r.storage_usage
          /\ nextName' = IF r.ok THEN nextName + 1 ELSE nextName
          /\ download_history' =
               IF r.ok /\ ~dangling THEN RecordDownload(download_history, nextName)
               ELSE download_history
    /\ pc' = [pc EXCEPT !["cmd"] = "idle"]
    /\ cmdKind' = "none"
    /\ UNCHANGED <<aux, users, payments, group_members, processing, credentials_configured,
                   awaiting_credentials, cmds, loops, ingest, chat, now, dangling>>

\* one iteration of automated_csv_downloader
AutomatedCsvDownloader(a, removable, removable2) ==
    /\ pc["dl"] = "sleep" /\ Turn("dl")
    /\ nextName <= MaxDownloads
    /\ credentials_configured
    /\ LET su1 == Recorded(storage_usage, files, dangling)
           room == ShouldDownloadMoreData(files, dangling)
           gaveUp == ~room /\ ~CleanupOldestCsv(files, removable).ok
           fs1 == IF room THEN files ELSE CleanupOldestCsv(files, removable).files
           r == DownloadWithStorageManagement(fs1, su1, dangling, nextName, a, TRUE,
                                              removable2)
       IN IF gaveUp
          THEN /\ storage_usage' = su1
               /\ UNCHANGED <<files, nextName, download_history>>
          ELSE /\ files' = r.files
               /\ storage_usage' = r.storage_usage
               /\ nextName' = IF r.ok THEN nextName + 1 ELSE nextName
               /\ download_history' =
                    IF r.ok /\ ~dangling THEN RecordDownload(download_history, nextName)
                    ELSE download_history
    /\ UNCHANGED <<aux, users, payments, group_members, bot, loops, ingest, chat, now,
                   dangling, pc>>

\* ------------------------------------------------------------------------
\* /process
\* ------------------------------------------------------------------------
\* process_payments up to its first reply
ProcessPayments(caller) ==
    /\ pc["cmd"] = "idle" /\ Turn("cmd")
    /\ IF update_queue # <<>>
       THEN /\ caller = Head(update_queue)
            /\ update_queue' = Tail(update_queue)
            /\ cmds' = cmds
       ELSE /\ cmds < MaxCommands
            /\ update_queue' = update_queue
            /\ cmds' = IF caller \in ADMIN_IDS /\ ~processing THEN cmds + 1 ELSE cmds
    /\ IF caller \in ADMIN_IDS /\ ~processing
       THEN /\ processing' = TRUE
            /\ pc' = [pc EXCEPT !["cmd"] = "proc_start"]
            /\ cmdKind' = "process"
       ELSE UNCHANGED <<processing, pc, cmdKind>>
    /\ UNCHANGED <<joined, clean, sent, fetch_failed, acted, undelayed, contributed,
                   ledger, disk,
                   credentials_configured, awaiting_credentials,
                   loops, ingest, chat, now, dangling>>

\* a /process update that arrives while process_payments is running: the
\* application handles one update at a time (concurrent_updates is off and
\* the handlers block), so the update waits in update_queue
QueueProcess(caller) ==
    /\ pc["cmd"] # "idle" /\ cmdKind = "process"
    /\ cmds < MaxCommands
    /\ Len(update_queue) < MaxQueued
    /\ update_queue' = Append(update_queue, caller)
    /\ cmds' = cmds + 1
    /\ UNCHANGED <<joined, clean, sent, fetch_failed, acted, undelayed, contributed,
                   ledger, disk,
                   processing, credentials_configured, awaiting_credentials, cmdKind,
                   loops, ingest, chat, now, dangling, pc>>

\* glob.glob("selar_export_*.csv")
ProcessGlob ==
    /\ pc["cmd"] = "proc_start" /\ Turn("cmd")
    /\ IF DOMAIN files = {}
       THEN /\ pc' = [pc EXCEPT !["cmd"] = "proc_nofiles"]
            /\ UNCHANGED <<batch, processed_count>>
       ELSE /\ pc' = [pc EXCEPT !["cmd"] = "proc_ingest"]
            /\ batch' = DOMAIN files
            /\ processed_count' = 0
    /\ contributed' = <<>>
    /\ UNCHANGED <<joined, update_queue, clean, sent, fetch_failed, acted, undelayed, ledger,
                   disk, bot, loops,
                   lastIngest, chat, now, dangling>>

\* the early return when no file was found
ProcessNoFiles ==
    /\ pc["cmd"] = "proc_nofiles" /\ Turn("cmd")
    /\ processing' = FALSE
    /\ pc' = [pc EXCEPT !["cmd"] = "idle"]
    /\ cmdKind' = "none"
    /\ UNCHANGED <<aux, ledger, disk, credentials_configured, awaiting_credentials, cmds,
                   loops, ingest, chat, now, dangling>>

\* count = await self.process_csv_file(csv_file); processed_count += count
ProcessIngest(f, free) ==
    /\ pc["cmd"] = "proc_ingest"
    /\ f \in batch
    /\ free \in 1..(Len(Pool[files[f]].rows) + 1)
    /\ dangling \/ free = 1
    /\ LET r == ProcessCsvFile(users, payments, Pool[files[f]], now, dangling, free)
       IN /\ users' = r.users
          /\ payments' = r.payments
          /\ dangling' = r.dangling
          /\ processed_count' = processed_count + r.count
          /\ lastIngest' = [art |-> files[f], count |-> r.count]
    /\ batch' = batch \ {f}
    /\ contributed' =
         [n \in DOMAIN contributed \cup {f} |->
            IF n = f
            THEN Cardinality(ProcessCsvFile(users, payments, Pool[files[f]], now,
                                            dangling, free).payments \ payments)
            ELSE contributed[n]]
    /\ UNCHANGED <<joined, update_queue, clean, sent, fetch_failed, acted, undelayed,
                   group_members,
                   download_history, storage_usage, disk, bot, loops,
                   chat, now, pc>>

\* UPDATE download_history for every file of the batch
ProcessHistory ==
    /\ pc["cmd"] = "proc_ingest"
    /\ batch = {}
    /\ IF dangling
       THEN /\ pc' = [pc EXCEPT !["cmd"] = "proc_error"]
            /\ UNCHANGED download_history
       ELSE /\ pc' = [pc EXCEPT !["cmd"] = "cg_fetch"]
            /\ download_history' =
                 [n \in DOMAIN download_history |->
                    IF n \in DOMAIN files
                    THEN [payments_processed |->
                              download_history[n].payments_processed + processed_count,
                          status |-> "processed"]
                    ELSE download_history[n]]
    /\ contributed' = <<>>
    /\ UNCHANGED <<joined, update_queue, clean, sent, fetch_failed, acted, undelayed,
                   users, payments,
                   group_members, storage_usage, disk, bot, loops,
                   ingest, chat, now, dangling>>

\* the end of process_payments: after the except branch or the final reply
ProcessEnd ==
    /\ pc["cmd"] \in {"proc_error", "proc_reply"} /\ Turn("cmd")
    /\ processing' = FALSE
    /\ pc' = [pc EXCEPT !["cmd"] = "idle"]
    /\ cmdKind' = "none"
    /\ UNCHANGED <<aux, ledger, disk, credentials_configured, awaiting_credentials, cmds,
                   loops, ingest, chat, now, dangling>>

\* reply_text raises where process_payments does not catch it: the first
\* reply "Processing payments..." stands before the try block, and the
\* replies of the except clause and of the early return (after its own
\* reply failed) stand outside any handler; the last statement is skipped
ProcessReplyRaises ==
    /\ pc["cmd"] \in {"proc_start", "proc_nofiles", "proc_error", "proc_reply"}
    /\ Turn("cmd")
    /\ pc' = [pc EXCEPT !["cmd"] = "idle"]
    /\ cmdKind' = "none"
    /\ UNCHANGED <<aux, ledger, disk, processing, credentials_configured,
                   awaiting_credentials, cmds, loops, ingest, chat, now, dangling>>

\* check_group_members without its DELETE FROM group_members and without
\* its UPDATE users SET in_group = FALSE: earlier entries stay
CheckGroupMembersNoClear(t, fetched) ==
    /\ pc[t] = "cg_fetch" /\ Turn(t)
    /\ IF fetched /\ ~dangling
       THEN /\ group_members' =
                 [u \in DOMAIN group_members \cup DOMAIN Roster |->
                     IF u \in DOMAIN Roster THEN Roster[u] ELSE group_members[u]]
            /\ users' = [u \in DOMAIN users |->
                           [users[u] EXCEPT !.in_group = @ \/ (u \in DOMAIN Roster)]]
       ELSE UNCHANGED <<users, group_members>>
    /\ clean' = [clean EXCEPT ![t] = fetched /\ ~dangling]
    /\ fetch_failed' = [fetch_failed EXCEPT ![t] = ~fetched]
    /\ pc' = [pc EXCEPT ![t] = "add_find"]
    /\ UNCHANGED <<joined, update_queue, contributed, undelayed, sent, acted, payments,
                   download_history,
                   storage_usage,
                   disk, bot, loops,
                   ingest, chat, now, dangling>>

\* ------------------------------------------------------------------------
\* check_group_members
\* ------------------------------------------------------------------------
\* fetched: get_chat_members returned.  The DELETE raises while the write
\* lock is held; either failure leaves the tables as they were.
CheckGroupMembers(t, fetched) ==
    /\ pc[t] = "cg_fetch" /\ Turn(t)
    /\ IF fetched /\ ~dangling
       THEN /\ group_members' = Roster
            /\ users' = SetInGroup(users, DOMAIN Roster)
       ELSE UNCHANGED <<users, group_members>>
    /\ clean' = [clean EXCEPT ![t] = fetched /\ ~dangling]
    /\ fetch_failed' = [fetch_failed EXCEPT ![t] = ~fetched]
    /\ pc' = [pc EXCEPT ![t] = "add_find"]
    /\ UNCHANGED <<joined, update_queue, contributed, undelayed, sent, acted, payments,
                   download_history,
                   storage_usage,
                   disk, bot, loops,
                   ingest, chat, now, dangling>>

\* ------------------------------------------------------------------------
\* Action Executor: add_missing_users_to_group
\* ------------------------------------------------------------------------
\* missing_users = await self.find_missing_group_members(); added_count = 0
AddFind(t) ==
    /\ pc[t] = "add_find"
    /\ work' = [work EXCEPT ![t] = FindMissingGroupMembers(users, payments, now)]
    /\ added' = [added EXCEPT ![t] = 0]
    /\ pc' = [pc EXCEPT ![t] = "add_next"]
    /\ acted' = [acted EXCEPT ![t] = {}]
    /\ undelayed' = [undelayed EXCEPT ![t] = FALSE]
    /\ joined' = [joined EXCEPT ![t] = {}]
    /\ UNCHANGED <<update_queue, contributed, clean, sent, fetch_failed, ledger, disk,
                   bot, cur,
                   removed, ingest,
                   chat, now, dangling>>

\* the for statement: the next row of missing_users, in any order
AddNext(t, row) ==
    /\ pc[t] = "add_next"
    /\ row \in work[t]
    /\ cur' = [cur EXCEPT ![t] = row]
    /\ work' = [work EXCEPT ![t] = work[t] \ {row}]
    /\ pc' = [pc EXCEPT ![t] = "add_check"]
    /\ UNCHANGED <<aux, ledger, disk, bot, added, removed, ingest, chat, now, dangling>>

\* return added_count: /add_missing replies, the other flows go on to
\* remove_expired_users_from_group
AddReturn(t) ==
    /\ pc[t] = "add_next"
    /\ work[t] = {}
    /\ IF Flow(t) = "add_missing"
       THEN /\ pc' = [pc EXCEPT ![t] = "idle"]
            /\ cmdKind' = "none"
       ELSE /\ pc' = [pc EXCEPT ![t] = "rem_find"]
            /\ UNCHANGED cmdKind
    /\ cur' = [cur EXCEPT ![t] = NoRow]
    /\ acted' = [acted EXCEPT ![t] = {}]
    /\ undelayed' = [undelayed EXCEPT ![t] = FALSE]
    /\ joined' = [joined EXCEPT ![t] = IF Flow(t) = "add_missing" THEN {} ELSE joined[t]]
    /\ UNCHANGED <<update_queue, contributed, clean, sent, fetch_failed, ledger, disk,
                   processing,
                   credentials_configured,
                   awaiting_credentials, cmds, work, added, removed, ingest, chat,
                   now, dangling>>

\* the double-check get_chat_member: answered is FALSE when it raises
AddCheck(t, answered) ==
    /\ pc[t] = "add_check" /\ Turn(t)
    /\ IF answered /\ chat[cur[t].user_id] \in ActiveStatuses /\ ~dangling
       THEN /\ users' = [users EXCEPT ![cur[t].user_id].in_group = TRUE]
            /\ pc' = [pc EXCEPT ![t] = "add_next"]
       ELSE /\ pc' = [pc EXCEPT ![t] = "add_call"]
            /\ UNCHANGED users
    /\ clean' = [clean EXCEPT ![t] =
                   clean[t] /\ answered /\ ~(chat[cur[t].user_id] \in ActiveStatuses /\ dangling)]
    /\ UNCHANGED <<joined, update_queue, contributed, undelayed, sent, fetch_failed, acted,
                   payments, group_members,
                   download_history,
                   storage_usage, disk,
                   bot, loops, ingest, chat, now, dangling>>

\* add_chat_member
AddCall(t, ok) ==
    /\ pc[t] = "add_call" /\ Turn(t)
    /\ IF ok
       THEN /\ chat' = [chat EXCEPT ![cur[t].user_id] = "member"]
            /\ pc' = [pc EXCEPT ![t] = "add_sleep"]
       ELSE /\ pc' = [pc EXCEPT ![t] = "add_next"]
            /\ UNCHANGED chat
    /\ clean' = [clean EXCEPT ![t] = clean[t] /\ ok]
    /\ acted' = [acted EXCEPT ![t] = IF ok THEN acted[t] \cup {cur[t].user_id} ELSE acted[t]]
    /\ undelayed' = [undelayed EXCEPT ![t] = TRUE]
    /\ joined' = [joined EXCEPT ![t] = IF ok THEN joined[t] \cup {cur[t].user_id} ELSE joined[t]]
    /\ UNCHANGED <<update_queue, contributed, sent, fetch_failed, ledger, disk, bot,
                   loops, ingest,
                   now, dangling>>

\* after asyncio.sleep(1): UPDATE users, added_count += 1, welcome message
AddUpdate(t) ==
    /\ pc[t] = "add_sleep" /\ Turn(t)
    /\ IF dangling
       THEN UNCHANGED <<users, added>>
       ELSE /\ users' = [users EXCEPT ![cur[t].user_id].in_group = TRUE]
            /\ added' = [added EXCEPT ![t] = added[t] + 1]
    /\ clean' = [clean EXCEPT ![t] = clean[t] /\ ~dangling]
    /\ pc' = [pc EXCEPT ![t] = "add_next"]
    /\ undelayed' = [undelayed EXCEPT ![t] = FALSE]
    /\ UNCHANGED <<joined, update_queue, contributed, sent, fetch_failed, acted, payments,
                   group_members,
                   download_history,
                   storage_usage, disk,
                   bot, work, cur, removed, ingest, chat, now, dangling>>

\* ------------------------------------------------------------------------
\* Action Executor: remove_expired_users_from_group and its two copies
\* (remove_expired_users, check_expired_subscriptions)
\* ------------------------------------------------------------------------
\* expired_users = await self.find_expired_users_in_group(); removed_count = 0
RemoveFind(t) ==
    /\ pc[t] = "rem_find"
    /\ work' = [work EXCEPT ![t] = FindExpiredUsersInGroup(users, payments, now)]
    /\ removed' = [removed EXCEPT ![t] = 0]
    /\ pc' = [pc EXCEPT ![t] = "rem_next"]
    /\ acted' = [acted EXCEPT ![t] = {}]
    /\ undelayed' = [undelayed EXCEPT ![t] = FALSE]
    /\ UNCHANGED <<joined, update_queue, contributed, clean, sent, fetch_failed, ledger, disk,
                   bot, cur, added,
                   ingest,
                   chat, now, dangling>>

RemoveNext(t, row) ==
    /\ pc[t] = "rem_next"
    /\ row \in work[t]
    /\ cur' = [cur EXCEPT ![t] = row]
    /\ work' = [work EXCEPT ![t] = work[t] \ {row}]
    /\ pc' = [pc EXCEPT ![t] = "rem_call"]
    /\ UNCHANGED <<aux, ledger, disk, bot, added, removed, ingest, chat, now, dangling>>

\* return removed_count, and what the caller does up to its next await
RemoveReturn(t) ==
    /\ pc[t] = "rem_next"
    /\ work[t] = {}
    /\ pc' = [pc EXCEPT ![t] =
                CASE Flow(t) = "process" -> "proc_reply"
                  [] Flow(t) = "agm" ->
                        IF added[t] > 0 \/ removed[t] > 0 THEN "agm_notify"
                        ELSE "agm_cleanup"
                  [] Flow(t) = "sweep" -> "sleep"
                  [] OTHER -> "idle"]
    /\ cmdKind' = IF Flow(t) = "remove_expired" THEN "none" ELSE cmdKind
    /\ cur' = [cur EXCEPT ![t] = NoRow]
    /\ acted' = [acted EXCEPT ![t] = {}]
    /\ fetch_failed' = [fetch_failed EXCEPT ![t] = FALSE]
    /\ undelayed' = [undelayed EXCEPT ![t] = FALSE]
    /\ joined' = [joined EXCEPT ![t] = {}]
    /\ UNCHANGED <<update_queue, contributed, clean, sent, ledger, disk, processing,
                   credentials_configured,
                   awaiting_credentials, cmds, work, added, removed, ingest, chat,
                   now, dangling>>

\* ban_chat_member
RemoveCall(t, ok) ==
    /\ pc[t] = "rem_call" /\ Turn(t)
    /\ IF ok
       THEN /\ chat' = [chat EXCEPT ![cur[t].user_id] = "kicked"]
            /\ pc' = [pc EXCEPT ![t] = "rem_sleep"]
       ELSE /\ pc' = [pc EXCEPT ![t] = "rem_next"]
            /\ UNCHANGED chat
    /\ clean' = [clean EXCEPT ![t] = clean[t] /\ ok]
    /\ acted' = [acted EXCEPT ![t] = IF ok THEN acted[t] \cup {cur[t].user_id} ELSE acted[t]]
    /\ undelayed' = [undelayed EXCEPT ![t] = TRUE]
    /\ UNCHANGED <<joined, update_queue, contributed, sent, fetch_failed, ledger, disk, bot,
                   loops, ingest,
                   now, dangling>>

\* the executor's UPDATE users SET in_group = FALSE left out
RemoveUpdateKeepsFlag(t) ==
    /\ pc[t] = "rem_sleep" /\ Turn(t)
    /\ IF dangling
       THEN UNCHANGED removed
       ELSE removed' = [removed EXCEPT ![t] = removed[t] + 1]
    /\ clean' = [clean EXCEPT ![t] = clean[t] /\ ~dangling]
    /\ pc' = [pc EXCEPT ![t] = "rem_next"]
    /\ undelayed' = [undelayed EXCEPT ![t] = FALSE]
    /\ UNCHANGED <<joined, update_queue, contributed, sent, fetch_failed, acted, ledger,
                   disk, bot, work, cur, added, ingest, chat, now, dangling>>

\* after asyncio.sleep(1): UPDATE users, removed_count += 1, notification
RemoveUpdate(t) ==
    /\ pc[t] = "rem_sleep" /\ Turn(t)
    /\ IF dangling
       THEN UNCHANGED <<users, removed>>
       ELSE /\ users' = [users EXCEPT ![cur[t].user_id].in_group = FALSE]
            /\ removed' = [removed EXCEPT ![t] = removed[t] + 1]
    /\ clean' = [clean EXCEPT ![t] = clean[t] /\ ~dangling]
    /\ pc' = [pc EXCEPT ![t] = "rem_next"]
    /\ undelayed' = [undelayed EXCEPT ![t] = FALSE]
    /\ UNCHANGED <<joined, update_queue, contributed, sent, fetch_failed, acted, payments,
                   group_members,
                   download_history,
                   storage_usage, disk,
                   bot, work, cur, added, ingest, chat, now, dangling>>

\* ------------------------------------------------------------------------
\* /add_missing, /remove_expired
\* ------------------------------------------------------------------------
\* add_missing_users up to its first reply
AddMissingUsers(caller) ==
    /\ pc["cmd"] = "idle" /\ Turn("cmd") /\ cmds < MaxCommands
    /\ update_queue = <<>>
    /\ cmds' = IF caller \in ADMIN_IDS THEN cmds + 1 ELSE cmds
    /\ IF caller \in ADMIN_IDS
       THEN /\ pc' = [pc EXCEPT !["cmd"] = "addc_start"]
            /\ cmdKind' = "add_missing"
       ELSE UNCHANGED <<pc, cmdKind>>
    /\ UNCHANGED <<aux, ledger, disk, processing, credentials_configured,
                   awaiting_credentials, loops, ingest, chat, now, dangling>>

AddMissingUsersRun ==
    /\ pc["cmd"] = "addc_start" /\ Turn("cmd")
    /\ pc' = [pc EXCEPT !["cmd"] = "add_find"]
    /\ UNCHANGED <<aux, ledger, disk, bot, loops, ingest, chat, now, dangling>>

\* remove_expired_users up to its query
RemoveExpiredUsers(caller) ==
    /\ pc["cmd"] = "idle" /\ Turn("cmd") /\ cmds < MaxCommands
    /\ update_queue = <<>>
    /\ cmds' = IF caller \in ADMIN_IDS THEN cmds + 1 ELSE cmds
    /\ IF caller \in ADMIN_IDS
       THEN /\ pc' = [pc EXCEPT !["cmd"] = "rem_find"]
            /\ cmdKind' = "remove_expired"
       ELSE UNCHANGED <<pc, cmdKind>>
    /\ UNCHANGED <<aux, ledger, disk, processing, credentials_configured,
                   awaiting_credentials, loops, ingest, chat, now, dangling>>

\* ------------------------------------------------------------------------
\* /storage, /stats, /group_stats
\* ------------------------------------------------------------------------
\* storage_status without its admin test
StorageStatusUngated(caller) ==
    /\ pc["cmd"] = "idle" /\ Turn("cmd") /\ cmds < MaxCommands
    /\ update_queue = <<>>
    /\ cmds' = cmds + 1
    /\ storage_usage' = Recorded(storage_usage, files, dangling)
    /\ pc' = [pc EXCEPT !["cmd"] = "cmd_reply"]
    /\ cmdKind' = "storage"
    /\ UNCHANGED <<aux, users, payments, group_members, download_history, disk,
                   processing, credentials_configured, awaiting_credentials, loops,
                   ingest, chat, now, dangling>>

\* storage_status up to its reply: calculate_storage_usage records a
\* snapshot for an admin
StorageStatus(caller) ==
    /\ pc["cmd"] = "idle" /\ Turn("cmd") /\ cmds < MaxCommands
    /\ update_queue = <<>>
    /\ cmds' = cmds + 1
    /\ storage_usage' =
         IF caller \in ADMIN_IDS THEN Recorded(storage_usage, files, dangling)
         ELSE storage_usage
    /\ pc' = [pc EXCEPT !["cmd"] = "cmd_reply"]
    /\ cmdKind' = IF caller \in ADMIN_IDS THEN "storage" ELSE "denied"
    /\ UNCHANGED <<aux, users, payments, group_members, download_history, disk,
                   processing, credentials_configured, awaiting_credentials, loops,
                   ingest, chat, now, dangling>>

\* stats up to its reply: SELECT statements only
Stats(caller) ==
    /\ pc["cmd"] = "idle" /\ Turn("cmd") /\ cmds < MaxCommands
    /\ update_queue = <<>>
    /\ cmds' = cmds + 1
    /\ pc' = [pc EXCEPT !["cmd"] = "cmd_reply"]
    /\ cmdKind' = IF caller \in ADMIN_IDS THEN "stats" ELSE "denied"
    /\ UNCHANGED <<aux, ledger, disk, processing, credentials_configured,
                   awaiting_credentials, loops, ingest, chat, now, dangling>>

\* group_stats up to its reply: SELECT statements only
GroupStats(caller) ==
    /\ pc["cmd"] = "idle" /\ Turn("cmd") /\ cmds < MaxCommands
    /\ update_queue = <<>>
    /\ cmds' = cmds + 1
    /\ pc' = [pc EXCEPT !["cmd"] = "cmd_reply"]
    /\ cmdKind' = IF caller \in ADMIN_IDS THEN "group_stats" ELSE "denied"
    /\ UNCHANGED <<aux, ledger, disk, processing, credentials_configured,
                   awaiting_credentials, loops, ingest, chat, now, dangling>>

\* the reply of the three handlers has been sent: the handler returns
CommandReply ==
    /\ pc["cmd"] = "cmd_reply" /\ Turn("cmd")
    /\ pc' = [pc EXCEPT !["cmd"] = "idle"]
    /\ cmdKind' = "none"
    /\ UNCHANGED <<aux, ledger, disk, processing, credentials_configured,
                   awaiting_credentials, cmds, loops, ingest, chat, now, dangling>>

\* ------------------------------------------------------------------------
\* The automatic reconciliation cycle and the hard-expiry sweep
\* ------------------------------------------------------------------------
\* automated_group_management without the low-storage test
AutomatedGroupManagementNoFloor ==
    /\ pc["agm"] = "sleep" /\ Turn("agm")
    /\ storage_usage' = Recorded(storage_usage, files, dangling)
    /\ pc' = [pc EXCEPT !["agm"] = "cg_fetch"]
    /\ UNCHANGED <<aux, users, payments, group_members, download_history, disk, bot,
                   loops, ingest, chat, now, dangling>>

\* automated_group_management after its sleep: the storage check
AutomatedGroupManagement ==
    /\ pc["agm"] = "sleep" /\ Turn("agm")
    /\ storage_usage' = Recorded(storage_usage, files, dangling)
    /\ IF /\ CalculateStorageUsage(files, dangling).ok
          /\ CalculateStorageUsage(files, dangling).info.available_mb < LOW_STORAGE_MB
       THEN UNCHANGED pc
       ELSE pc' = [pc EXCEPT !["agm"] = "cg_fetch"]
    /\ UNCHANGED <<aux, users, payments, group_members, download_history, disk, bot,
                   loops, ingest, chat, now, dangling>>

\* the message to the admin when something was added or removed
AgmNotify ==
    /\ pc["agm"] = "agm_notify" /\ Turn("agm")
    /\ pc' = [pc EXCEPT !["agm"] = "agm_cleanup"]
    /\ UNCHANGED <<aux, ledger, disk, bot, loops, ingest, chat, now, dangling>>

\* step 4 of the cycle: clean up old data if needed
AgmCleanup(removable) ==
    /\ pc["agm"] = "agm_cleanup"
    /\ storage_usage' = Recorded(storage_usage, files, dangling)
    /\ files' =
         IF /\ CalculateStorageUsage(files, dangling).ok
            /\ CalculateStorageUsage(files, dangling).info.available_mb < RESERVED_STORAGE_MB
         THEN CleanupOldestCsv(files, removable).files
         ELSE files
    /\ pc' = [pc EXCEPT !["agm"] = "sleep"]
    /\ UNCHANGED <<aux, users, payments, group_members, download_history, nextName, bot,
                   loops, ingest, chat, now, dangling>>

\* check_expired_subscriptions after its sleep
CheckExpiredSubscriptions ==
    /\ pc["sweep"] = "sleep" /\ Turn("sweep")
    /\ pc' = [pc EXCEPT !["sweep"] = "rem_find"]
    /\ UNCHANGED <<aux, ledger, disk, bot, loops, ingest, chat, now, dangling>>

\* the users the notice query selects: expires_date BETWEEN now AND
\* now + 3 days, status completed
FindExpiring(usr, pay, nowdt) ==
    { q.user_id : q \in { p \in pay :
        /\ p.user_id \in DOMAIN usr
        /\ ~Before(p.expires_date, nowdt)
        /\ ~Before(DatetimeAdd(nowdt, Timedelta(NoticeDays, 0)), p.expires_date)
        /\ p.status = "completed" } }

\* one iteration of check_expiring_subscriptions: the query, then a message
\* to every selected user; delivered are the users whose send did not raise
CheckExpiringSubscriptions(delivered) ==
    /\ pc["notice"] = "sleep" /\ Turn("notice")
    /\ delivered \subseteq FindExpiring(users, payments, now)
    /\ sent' = sent \cup delivered
    /\ UNCHANGED <<joined, update_queue, contributed, undelayed, clean, fetch_failed, acted,
                   ledger, disk, bot,
                   loops,
                   ingest, chat, now,
                   dangling, pc>>

\* the four background loops of start_background_tasks
Cycles == {"agm", "dl", "sweep", "notice"}

\* the loops whose except clause awaits asyncio.sleep(300)
BackingOff == {"agm", "dl"}

\* the interval sleep of t has ended and an exception escapes the try body
\* of the iteration before it has written anything: the except clause logs
\* it, automated_group_management and automated_csv_downloader then await
\* asyncio.sleep(300), check_expiring_subscriptions and
\* check_expired_subscriptions go straight back to the top of the loop,
\* where the interval sleep is awaited
IterationRaises(t) ==
    /\ pc[t] = "sleep" /\ Turn(t)
    /\ pc' = [pc EXCEPT ![t] = IF t \in BackingOff THEN "backoff" ELSE "sleep"]
    /\ UNCHANGED <<aux, ledger, disk, bot, loops, ingest, chat, now, dangling>>

\* asyncio.sleep(300) of the except clause returns: the loop starts over
\* and its first await is the interval sleep (in automated_csv_downloader
\* on either side of the credentials test)
BackoffEnds(t) ==
    /\ pc[t] = "backoff" /\ Turn(t)
    /\ pc' = [pc EXCEPT ![t] = "sleep"]
    /\ UNCHANGED <<aux, ledger, disk, bot, loops, ingest, chat, now, dangling>>

\* ------------------------------------------------------------------------
\* The system
\* ------------------------------------------------------------------------
Reconcilers == {"cmd", "agm"}
Executors == {"cmd", "agm", "sweep"}


Credentials ==
    \/ \E c \in Callers : ConfigureCredentials(c)
    \/ \E c \in Callers, h \in BOOLEAN, sv \in BOOLEAN : HandleMessage(c, h, sv)

Fetching ==
    \/ \E c \in Callers : DownloadCsv(c)
    \/ \E a \in ArtIds : \E removable \in BOOLEAN : DownloadCsvRun(a, removable)
    \/ \E a \in ArtIds : \E removable \in BOOLEAN : \E removable2 \in BOOLEAN :
          AutomatedCsvDownloader(a, removable, removable2)

Processing ==
    \/ \E c \in Callers : ProcessPayments(c)
    \/ ProcessGlob
    \/ ProcessNoFiles
    \/ \E f \in DOMAIN files : \E k \in 1..(Len(Pool[files[f]].rows) + 1) : ProcessIngest(f, k)
    \/ ProcessHistory
    \/ ProcessEnd

Reconcile(t) ==
    \/ \E f \in BOOLEAN : CheckGroupMembers(t, f)
    \/ AddFind(t)
    \/ \E r \in work[t] : AddNext(t, r)
    \/ AddReturn(t)
    \/ \E ok \in BOOLEAN : AddCheck(t, ok)
    \/ \E ok \in BOOLEAN : AddCall(t, ok)
    \/ AddUpdate(t)

Remove(t) ==
    \/ RemoveFind(t)
    \/ \E r \in work[t] : RemoveNext(t, r)
    \/ RemoveReturn(t)
    \/ \E ok \in BOOLEAN : RemoveCall(t, ok)
    \/ RemoveUpdate(t)

Commands ==
    \/ \E c \in Callers : AddMissingUsers(c)
    \/ AddMissingUsersRun
    \/ \E c \in Callers : RemoveExpiredUsers(c)

Reports ==
    \/ \E c \in Callers : StorageStatus(c)
    \/ \E c \in Callers : Stats(c)
    \/ \E c \in Callers : GroupStats(c)
    \/ CommandReply

Cycle ==
    \/ AutomatedGroupManagement
    \/ AgmNotify
    \/ \E removable \in BOOLEAN : AgmCleanup(removable)

Next ==
    \/ Tick
    \/ GcCollect
    \/ Credentials
    \/ Fetching
    \/ Processing
    \/ ProcessReplyRaises
    \/ \E c \in Callers : QueueProcess(c)
    \/ Commands
    \/ Reports
    \/ Cycle
    \/ CheckExpiredSubscriptions
    \/ \E d \in SUBSET UserIds : CheckExpiringSubscriptions(d)
    \/ \E t \in Reconcilers : Reconcile(t)
    \/ \E t \in Executors : Remove(t)
    \/ \E t \in Cycles : IterationRaises(t)
    \/ \E t \in BackingOff : BackoffEnds(t)

Spec == Init /\ [][Next]_vars

\* the handler coroutine and the ingestion cycle alone: the two
\* reconciliation cycles stay in their interval sleep
NextIngest ==
    \/ GcCollect
    \/ Fetching
    \/ Processing
    \/ Reconcile("cmd")
    \/ Remove("cmd")

SpecIngest == Init /\ [][NextIngest]_vars

\* the artifact a restart finds in the data directory
RetainedFile == 0 :> 3

\* the state after construction when the data directory and the database
\* of an earlier run are still there: one artifact, recorded and
\* unprocessed; nobody has joined the group yet
InitRetained ==
    /\ users = <<>>
    /\ payments = {}
    /\ group_members = <<>>
    /\ download_history = RecordDownload(<<>>, 0)
    /\ storage_usage = {}
    /\ files = RetainedFile
    /\ nextName = 1
    /\ chat = [u \in UserIds |-> "left"]
    /\ now = StartNow
    /\ processing = FALSE
    /\ credentials_configured \in BOOLEAN
    /\ awaiting_credentials = {}
    /\ dangling = FALSE
    /\ cmds = 0
    /\ pc = [t \in Tasks |-> IF t = "cmd" THEN "idle" ELSE "sleep"]
    /\ cmdKind = "none"
    /\ work = [t \in Tasks |-> {}]
    /\ cur = [t \in Tasks |-> NoRow]
    /\ added = [t \in Tasks |-> 0]
    /\ removed = [t \in Tasks |-> 0]
    /\ batch = {}
    /\ processed_count = 0
    /\ lastIngest = [art |-> 0, count |-> 0]
    /\ clean = [t \in Tasks |-> TRUE]
    /\ fetch_failed = [t \in Tasks |-> FALSE]
    /\ acted = [t \in Tasks |-> {}]
    /\ undelayed = [t \in Tasks |-> FALSE]
    /\ contributed = <<>>
    /\ update_queue = <<>>
    /\ joined = [t \in Tasks |-> {}]
    /\ sent = {}

\* the handler coroutine and the download cycle of a restarted bot: the
\* data directory is never empty, so /process always finds a file
NextQuota ==
    \/ GcCollect
    \/ Fetching
    \/ \E c \in Callers : ProcessPayments(c)
    \/ ProcessGlob
    \/ \E f \in DOMAIN files : \E k \in 1..(Len(Pool[files[f]].rows) + 1) : ProcessIngest(f, k)
    \/ ProcessHistory
    \/ ProcessEnd
    \/ Reconcile("cmd")
    \/ Remove("cmd")

SpecQuota == InitRetained /\ [][NextQuota]_vars

\* /download and /process next to the automatic reconciliation cycle
NextCycle ==
    \/ GcCollect
    \/ \E c \in Callers : DownloadCsv(c)
    \/ \E a \in ArtIds : \E removable \in BOOLEAN : DownloadCsvRun(a, removable)
    \/ Processing
    \/ Cycle
    \/ \E t \in Reconcilers : Reconcile(t)
    \/ \E t \in Reconcilers : Remove(t)

SpecCycle == Init /\ [][NextCycle]_vars

\* every command and every cycle that reads or writes the ledger, the
\* artifacts arriving through /download
NextLedger ==
    \/ GcCollect
    \/ \E c \in Callers : DownloadCsv(c)
    \/ \E a \in ArtIds : \E removable \in BOOLEAN : DownloadCsvRun(a, removable)
    \/ Processing
    \/ Commands
    \/ Cycle
    \/ CheckExpiredSubscriptions
    \/ \E d \in SUBSET UserIds : CheckExpiringSubscriptions(d)
    \/ \E t \in Reconcilers : Reconcile(t)
    \/ \E t \in Executors : Remove(t)

SpecLedger == Init /\ [][NextLedger]_vars

\* ------------------------------------------------------------------------
\* Properties
\* ------------------------------------------------------------------------
OrderIds(pay) == { p.selar_order_id : p \in pay }

\* the add-set and the remove-set as sets of users
AddSet == { r.user_id : r \in FindMissingGroupMembers(users, payments, now) }
RemoveSet == { r.user_id : r \in FindExpiredUsersInGroup(users, payments, now) }

\* user u owns a completed PaymentRecord whose expiry is in the future
HoldsValid(u) ==
    \E p \in payments :
        p.user_id = u /\ p.status = "completed" /\ Before(now, p.expires_date)

\* user u owns a completed PaymentRecord whose expiry has passed
HoldsExpired(u) ==
    \E p \in payments :
        p.user_id = u /\ p.status = "completed" /\ Before(p.expires_date, now)

\* the row names an order and a user: a non-blank order identifier and a
\* user identifier that is a non-zero integer
NamesOrderAndUser(row) ==
    RowOrderId(row) # "" /\ RowUserId(row).ok /\ RowUserId(row).val # 0

\* no row of another order carries the row's transaction identifier
OwnTransaction(row) ==
    \A a \in ArtIds : \A i \in 1..Len(Pool[a].rows) :
        Pool[a].rows[i].transaction_id = row.transaction_id
            => RowOrderId(Pool[a].rows[i]) = RowOrderId(row)

\* coroutine t is past its roster refresh and before the end of its
\* add/remove execution
InFlight(t) ==
    pc[t] \in {"add_find", "add_next", "add_check", "add_call", "add_sleep",
               "rem_find", "rem_next", "rem_call", "rem_sleep"}

\* C1: ingestion is idempotent: a run of process_csv_file on the artifact
\* that the previous run ingested, the ledger untouched in between, returns
\* 0 and inserts no PaymentRecord.
C1_Idempotent ==
    [][\A f \in DOMAIN files : \A k \in 1..(Len(Pool[files[f]].rows) + 1) :
          (ProcessIngest(f, k) /\ files[f] = lastIngest.art)
              => (lastIngest'.count = 0 /\ payments' = payments)]_vars

\* C2: in every reachable ledger no two PaymentRecords share an order
\* identifier, whatever artifacts were ingested and however often an
\* identifier repeats within a file or across files.
C2_OrderIdUnique ==
    \A p, q \in payments : p.selar_order_id = q.selar_order_id => p = q

\* the rows of the artifact that repeats order A within the file and of the
\* artifact that repeats it across files have been ingested
C2_Witness == {"A", "C", "E"} \subseteq OrderIds(payments)

\* C3: deduplication is by order identifier only: an ingestion that reads
\* the whole artifact with the ledger writable inserts every row that
\* names an order and a user, whatever the row's transaction identifier.
C3_DedupByOrderOnly ==
    [][\A f \in DOMAIN files : \A k \in 1..(Len(Pool[files[f]].rows) + 1) :
          (ProcessIngest(f, k) /\ ~dangling /\ ~Pool[files[f]].readFail)
              => \A i \in 1..Len(Pool[files[f]].rows) :
                    NamesOrderAndUser(Pool[files[f]].rows[i])
                        => RowOrderId(Pool[files[f]].rows[i]) \in OrderIds(payments')]_vars

\* C4: a user who holds a completed PaymentRecord with expiry in the
\* future is never in the remove-set; a user with one valid and one
\* expired payment is in neither the add-set nor the remove-set while in
\* the group.
C4_ValidNeverRemoved ==
    \A u \in DOMAIN users :
        /\ HoldsValid(u) => u \notin RemoveSet
        /\ (HoldsValid(u) /\ HoldsExpired(u) /\ users[u].in_group)
              => (u \notin AddSet /\ u \notin RemoveSet)

\* C5: /process and the automatic reconciliation cycle are never both
\* between their roster refresh and the end of their add/remove execution,
\* and a /process issued while the automatic cycle is in flight is
\* rejected.
C5_MutualExclusion ==
    /\ [](~(cmdKind = "process" /\ InFlight("cmd") /\ InFlight("agm")))
    /\ [][\A c \in ADMIN_IDS :
             (ProcessPayments(c) /\ pc["agm"] # "sleep") => pc'["cmd"] = "idle"]_vars

\* C6: when a reconciliation cycle (roster refresh, add-set execution,
\* remove-set execution) ends without any of its calls having raised, each
\* user's in_group flag says whether the user is in group_members with an
\* active status.
C6_InGroupMatchesRoster ==
    [][\A t \in Reconcilers :
          (RemoveReturn(t) /\ Flow(t) \in {"process", "agm"} /\ clean[t])
              => \A u \in DOMAIN users :
                    users[u].in_group =
                        (u \in DOMAIN group_members /\ group_members[u] \in ActiveStatuses)]_vars

\* C7: a monthly PaymentRecord paid at 2024-01-01 00:00:00 expires at
\* exactly 2024-01-31 00:00:00.
C7_MonthlyExpiry ==
    \A p \in payments :
        (Lower(p.subscription_type) = "monthly" /\ p.payment_date = DT(2024, 1, 1, 0, 0, 0))
            => p.expires_date = DT(2024, 1, 31, 0, 0, 0)

\* a monthly record paid at 2024-01-01 00:00:00 is in the ledger
C7_Witness ==
    \E p \in payments :
        Lower(p.subscription_type) = "monthly" /\ p.payment_date = DT(2024, 1, 1, 0, 0, 0)

\* C7 as stated: the monthly record paid at 2024-01-01 00:00:00 expires at
\* exactly 2024-01-30 00:00:00.
C7_AsStated ==
    \A p \in payments :
        (Lower(p.subscription_type) = "monthly" /\ p.payment_date = DT(2024, 1, 1, 0, 0, 0))
            => p.expires_date = DT(2024, 1, 30, 0, 0, 0)

C9_AddSet ==
    AddSet = { u \in DOMAIN users : ~users[u].in_group /\ HoldsValid(u) }

\* the add-set holds a user while another user, whose only future-dated
\* record is pending, is left out of it
C9_Witness ==
    /\ AddSet # {}
    /\ \E u \in DOMAIN users \ AddSet :
          /\ ~users[u].in_group
          /\ \E p \in payments :
                p.user_id = u /\ p.status = "pending" /\ Before(now, p.expires_date)

\* C10: a malformed row never prevents the ingestion of the other rows:
\* when /process has ingested its batch, every row of every artifact of
\* the batch that names an order and a user and carries a parsable amount
\* and a transaction identifier of its own is a PaymentRecord of the
\* ledger.
C10_MalformedRowIsolated ==
    [][ProcessHistory
          => \A f \in DOMAIN files : \A i \in 1..Len(Pool[files[f]].rows) :
                (/\ NamesOrderAndUser(Pool[files[f]].rows[i])
                 /\ FloatOk(Get(Pool[files[f]].rows[i], "amount", "0"))
                 /\ OwnTransaction(Pool[files[f]].rows[i]))
                    => RowOrderId(Pool[files[f]].rows[i]) \in OrderIds(payments)]_vars

\* C11: the value process_csv_file returns is the number of PaymentRecords
\* that are in the ledger after the call and were not there before it,
\* also when reading the artifact fails part-way.
C11_CountIsDurable ==
    [][\A f \in DOMAIN files : \A k \in 1..(Len(Pool[files[f]].rows) + 1) :
          ProcessIngest(f, k)
              => lastIngest'.count = Cardinality(payments' \ payments)]_vars

\* the user a row names when the first of user_id and telegram_id that
\* parses to a non-zero integer is taken; 0 when neither does
NamedUser(row) ==
    LET u == ParseInt(Get(row, "user_id", "0"))
        g == ParseInt(Get(row, "telegram_id", "0"))
    IN IF u.ok /\ u.val # 0 THEN u.val
       ELSE IF g.ok /\ g.val # 0 THEN g.val
       ELSE 0

\* row i is the first row of its order in the artifact, the order is not
\* in the ledger, and nothing but the user identity can make the row fail
FreshAndSound(art, i, pay) ==
    /\ RowOrderId(art.rows[i]) # ""
    /\ RowOrderId(art.rows[i]) \notin OrderIds(pay)
    /\ \A j \in 1..(i - 1) : RowOrderId(art.rows[j]) # RowOrderId(art.rows[i])
    /\ FloatOk(Get(art.rows[i], "amount", "0"))
    /\ OwnTransaction(art.rows[i])

\* C12: a row with a fresh, non-blank order identifier is skipped for lack
\* of a user identity exactly when neither user_id nor telegram_id parses
\* to a non-zero integer; when user_id is blank or non-numeric and
\* telegram_id is a non-zero integer the row is ingested under telegram_id.
C12_IdentityFallback ==
    [][\A f \in DOMAIN files : \A k \in 1..(Len(Pool[files[f]].rows) + 1) :
          (ProcessIngest(f, k) /\ ~dangling /\ ~Pool[files[f]].readFail)
              => \A i \in 1..Len(Pool[files[f]].rows) :
                    FreshAndSound(Pool[files[f]], i, payments)
                        => IF NamedUser(Pool[files[f]].rows[i]) = 0
                           THEN RowOrderId(Pool[files[f]].rows[i]) \notin OrderIds(payments')
                           ELSE \E p \in payments' :
                                   /\ p.selar_order_id = RowOrderId(Pool[files[f]].rows[i])
                                   /\ p.user_id = NamedUser(Pool[files[f]].rows[i])]_vars

\* ceiling minus measured usage exceeds the reserved headroom
Headroom(fs) == MAX_STORAGE_MB - StorageInfo(fs).total_used_mb > RESERVED_STORAGE_MB

\* C13: has_room_for_more answers true exactly when the ceiling minus the
\* current usage exceeds the reserved headroom, a failed measurement
\* included: it never answers true while the difference is at most the
\* reserved headroom.
C13_RoomIffHeadroom == ShouldDownloadMoreData(files, dangling) = Headroom(files)

\* C14: whenever download_with_storage_management is called while there is
\* no room and no retained artifact can be evicted, no artifact is fetched,
\* no download_history row is written, and the call returns
\* (False, "Storage limit reached").
C14_AbortWhenExhausted ==
    [][\A a \in ArtIds : \A removable \in BOOLEAN :
          (/\ DownloadCsvRun(a, removable)
           /\ ~Headroom(files)
           /\ ~CleanupOldestCsv(files, removable).ok)
              => /\ files' = files
                 /\ download_history' = download_history
                 /\ LET r == DownloadWithStorageManagement(files, storage_usage, dangling,
                                                           nextName, a, TRUE, removable)
                    IN ~r.ok /\ r.error = "Storage limit reached"]_vars

\* C15: before any single artifact fetch at most one retained artifact is
\* evicted: an iteration of the automatic download cycle, and a /download,
\* deletes 0 or 1 artifacts.
C15_AtMostOneEviction ==
    [][(\/ \E a \in ArtIds : \E removable \in BOOLEAN : \E removable2 \in BOOLEAN :
             AutomatedCsvDownloader(a, removable, removable2)
        \/ \E a \in ArtIds : \E removable \in BOOLEAN : DownloadCsvRun(a, removable))
          => Cardinality(DOMAIN files \ DOMAIN files') <= 1]_vars

\* C16: the total footprint (artifacts plus database) never exceeds the
\* configured ceiling.
C16_UnderCeiling == StorageInfo(files).total_used_mb <= MAX_STORAGE_MB

\* C16, second part: a new artifact is never fetched while the ceiling
\* minus the total used is at most the reserved headroom.
C16_NoFetchWithoutHeadroom ==
    [][(DOMAIN files' \ DOMAIN files # {})
          => Headroom([n \in DOMAIN files \cap DOMAIN files' |-> files[n]])]_vars

\* C17: a successful check_group_members leaves group_members equal to the
\* roster just fetched and every user's in_group flag true exactly for the
\* users of that roster; the table only ever changes from one complete
\* roster to the next, so no state with the old roster deleted and the new
\* one not yet inserted is visible to another coroutine.
C17_RosterReplaced ==
    [][/\ \A t \in Reconcilers :
            (pc[t] = "cg_fetch" /\ pc'[t] # "cg_fetch" /\ clean'[t])
                => /\ group_members' = Roster
                   /\ \A u \in DOMAIN users' :
                         users'[u].in_group = (u \in DOMAIN Roster)
       /\ (group_members' # group_members => group_members' = Roster)]_vars

\* a successful roster check has just dropped the entry of a user removed
\* from the group since the previous check
C17_Witness ==
    /\ \E t \in Reconcilers : pc[t] = "add_find" /\ clean[t]
    /\ group_members = Roster
    /\ \E u \in DOMAIN users : chat[u] = "kicked" /\ ~users[u].in_group
    /\ \E u \in DOMAIN users : users[u].in_group

\* the execution of task t is one that began with a roster check
Reconciling(t) == Flow(t) \in {"process", "agm"}

\* C18: when the roster fetch of a reconciliation execution (automatic
\* cycle or /process) fails, that execution issues no add action and no
\* remove action and changes no in_group flag.
C18_FetchFailureIsFatal ==
    [][\A t \in Reconcilers :
          (fetch_failed[t] /\ Reconciling(t))
              => /\ ~ \E ok \in BOOLEAN : AddCall(t, ok) \/ RemoveCall(t, ok)
                 /\ ~ \E ok \in BOOLEAN : AddCheck(t, ok) /\ users' # users
                 /\ ~ (AddUpdate(t) /\ users' # users)
                 /\ ~ (RemoveUpdate(t) /\ users' # users)]_vars

\* C19: a failed add leaves the other users of the add-set to be attempted,
\* and the count add_missing_users_to_group returns is the number of users
\* whose add action succeeded.
C19_CountIsUsersAdded ==
    [][\A t \in Reconcilers : AddReturn(t) => added[t] = Cardinality(acted[t])]_vars

\* C20: a failed ban leaves the other users of the remove-set to be
\* attempted, and the count the removal loop returns is the number of users
\* whose ban succeeded (five users with one failure: four).
C20_CountIsUsersRemoved ==
    [][\A t \in Executors : RemoveReturn(t) => removed[t] = Cardinality(acted[t])]_vars

\* C21: within one execution of the add loop or of the remove loop, an
\* inter-action delay elapses between any two consecutive mutating calls
\* (add_chat_member, ban_chat_member), also when the earlier call failed.
C21_DelayBetweenCalls ==
    [][\A t \in Executors :
          (\E ok \in BOOLEAN : AddCall(t, ok) \/ RemoveCall(t, ok)) => ~undelayed[t]]_vars

\* C28: within one execution of the add loop or of the remove loop no user
\* receives more than one mutating external action (add or ban), also when
\* the user owns several payment records matching the query.
C28_OneActionPerUser ==
    [][\A t \in Executors :
          (\E ok \in BOOLEAN : AddCall(t, ok) \/ RemoveCall(t, ok))
              => cur[t].user_id \notin acted[t]]_vars

\* C24: after a /process run each file's download_history row has its
\* payments_processed raised by exactly the number of records that file
\* contributed in the run.
C24_HistoryPerArtifact ==
    [][ProcessHistory
          => \A n \in DOMAIN contributed \cap DOMAIN download_history :
                download_history'[n].payments_processed =
                    download_history[n].payments_processed + contributed[n]]_vars

\* the files without the one of the oldest modification time
WithoutOldest(fs) ==
    [n \in {x \in DOMAIN fs : \E m \in DOMAIN fs : m < x} |-> fs[n]]

\* C25: cleanup_oldest_csv removes exactly one artifact, the one with the
\* oldest modification time, and leaves every other artifact and every
\* download_history row (the evicted artifact's row included) unchanged;
\* with no artifact retained it returns false and changes nothing.
C25_EvictsOldestOnly ==
    /\ [](/\ DOMAIN files = {} => \A removable \in BOOLEAN :
                /\ ~CleanupOldestCsv(files, removable).ok
                /\ CleanupOldestCsv(files, removable).files = files
          /\ DOMAIN files # {} =>
                /\ CleanupOldestCsv(files, TRUE).ok
                /\ CleanupOldestCsv(files, TRUE).files = WithoutOldest(files)
                /\ Cardinality(DOMAIN CleanupOldestCsv(files, TRUE).files)
                     = Cardinality(DOMAIN files) - 1
                /\ ~CleanupOldestCsv(files, FALSE).ok
                /\ CleanupOldestCsv(files, FALSE).files = files)
    /\ [][\A removable \in BOOLEAN : AgmCleanup(removable)
             => /\ download_history' = download_history
                /\ files' \in {files, WithoutOldest(files)}]_vars

\* the cycle's cleanup has evicted the oldest of two artifacts: the newer
\* one is still there and both download_history rows are kept
C25_Witness ==
    /\ pc["agm"] = "sleep"
    /\ \E n \in DOMAIN download_history \ DOMAIN files :
          /\ \E m \in DOMAIN files : n < m
          /\ \A m \in DOMAIN files : n < m /\ m \in DOMAIN download_history
    /\ \E su \in storage_usage : su.available_mb < RESERVED_STORAGE_MB /\ su.available_mb >= LOW_STORAGE_MB

\* the stage of an iteration of the automatic reconciliation cycle
AgmPhase(p) ==
    CASE p = "sleep" -> 0
      [] p = "cg_fetch" -> 1
      [] p \in {"add_find", "add_next", "add_check", "add_call", "add_sleep"} -> 2
      [] p \in {"rem_find", "rem_next", "rem_call", "rem_sleep"} -> 3
      [] OTHER -> 4

\* C30: an iteration of automated_group_management that measures less
\* than 10 available at its start refreshes no roster, issues no add or
\* remove, changes no in_group flag and evicts nothing; one that measures
\* 10 or more runs refresh, add execution and remove execution in that
\* order, and evicts afterwards only if the available storage measured
\* then is below the reserved headroom.
C30_FloorSkipsIteration ==
    /\ [][(AutomatedGroupManagement /\ CalculateStorageUsage(files, dangling).ok)
            => IF StorageInfo(files).available_mb < LOW_STORAGE_MB
               THEN /\ pc'["agm"] = "sleep"
                    /\ UNCHANGED <<users, group_members, chat, files>>
               ELSE pc'["agm"] = "cg_fetch"]_vars
    /\ [][pc'["agm"] # pc["agm"]
            => /\ \/ AgmPhase(pc'["agm"]) = AgmPhase(pc["agm"])
                  \/ AgmPhase(pc'["agm"]) = (AgmPhase(pc["agm"]) + 1) % 5
               /\ pc["agm"] # "agm_cleanup" => files' = files]_vars
    /\ [][\A removable \in BOOLEAN : (AgmCleanup(removable) /\ files' # files)
            => /\ CalculateStorageUsage(files, dangling).ok
               /\ StorageInfo(files).available_mb < RESERVED_STORAGE_MB]_vars

\* the cycle is asleep again after measuring less than the floor
C30_Witness ==
    /\ pc["agm"] = "sleep"
    /\ ~dangling
    /\ StorageInfo(files) \in storage_usage
    /\ StorageInfo(files).available_mb < LOW_STORAGE_MB
    /\ Cardinality(DOMAIN files) = 2

BacklogFiles == 0 :> 1 @@ 1 :> 3

\* the state after construction when two artifacts of an earlier run are
\* still in the data directory, recorded and unprocessed
InitBacklog ==
    /\ users = <<>>
    /\ payments = {}
    /\ group_members = <<>>
    /\ download_history = RecordDownload(RecordDownload(<<>>, 0), 1)
    /\ storage_usage = {}
    /\ files = BacklogFiles
    /\ nextName = 2
    /\ chat \in InitialChats
    /\ now = StartNow
    /\ processing = FALSE
    /\ credentials_configured \in BOOLEAN
    /\ awaiting_credentials = {}
    /\ dangling = FALSE
    /\ cmds = 0
    /\ pc = [t \in Tasks |-> IF t = "cmd" THEN "idle" ELSE "sleep"]
    /\ cmdKind = "none"
    /\ work = [t \in Tasks |-> {}]
    /\ cur = [t \in Tasks |-> NoRow]
    /\ added = [t \in Tasks |-> 0]
    /\ removed = [t \in Tasks |-> 0]
    /\ batch = {}
    /\ processed_count = 0
    /\ lastIngest = [art |-> 0, count |-> 0]
    /\ clean = [t \in Tasks |-> TRUE]
    /\ fetch_failed = [t \in Tasks |-> FALSE]
    /\ acted = [t \in Tasks |-> {}]
    /\ undelayed = [t \in Tasks |-> FALSE]
    /\ contributed = <<>>
    /\ update_queue = <<>>
    /\ joined = [t \in Tasks |-> {}]
    /\ sent = {}

\* the handler coroutine of a restarted bot: /process of the artifacts
\* found, /add_missing and /remove_expired
NextBacklog ==
    \/ GcCollect
    \/ \E c \in Callers : ProcessPayments(c)
    \/ ProcessGlob
    \/ \E f \in DOMAIN files : \E k \in 1..(Len(Pool[files[f]].rows) + 1) : ProcessIngest(f, k)
    \/ ProcessHistory
    \/ ProcessEnd
    \/ ProcessReplyRaises
    \/ \E c \in Callers : QueueProcess(c)
    \/ Commands
    \/ Reconcile("cmd")
    \/ Remove("cmd")

SpecBacklog == InitBacklog /\ [][NextBacklog]_vars

\* C27: whenever a /process invocation that set the processing guard has
\* ended (success, no file found, an exception in ingestion or
\* reconciliation, or a failed reply), the guard is false, so that a later
\* /process is accepted.
C27_GuardReleased == pc["cmd"] = "idle" => ~processing

\* C22: a /process request issued while another /process is in flight is
\* rejected: handling it ingests nothing, calls no membership API and
\* leaves the processing guard as it is; it is not kept for later.
C22_SecondRequestRejected ==
    [][\A c \in ADMIN_IDS :
          (ProcessPayments(c) /\ update_queue # <<>>)
             => /\ processing' = processing
                /\ pc'["cmd"] = "idle"]_vars

NextAdmin ==
    \/ GcCollect
    \/ Credentials
    \/ \E c \in Callers : DownloadCsv(c)
    \/ \E a \in ArtIds : \E removable \in BOOLEAN : DownloadCsvRun(a, removable)
    \/ \E c \in Callers : ProcessPayments(c)
    \/ ProcessGlob
    \/ \E f \in DOMAIN files : \E k \in 1..(Len(Pool[files[f]].rows) + 1) : ProcessIngest(f, k)
    \/ ProcessHistory
    \/ ProcessEnd
    \/ Commands
    \/ Reports
    \/ Reconcile("cmd")
    \/ Remove("cmd")

SpecAdmin == InitBacklog /\ [][NextAdmin]_vars

\* one of the eight admin commands, sent by caller
AdminCommand(caller) ==
    \/ DownloadCsv(caller)
    \/ ProcessPayments(caller)
    \/ AddMissingUsers(caller)
    \/ RemoveExpiredUsers(caller)
    \/ StorageStatus(caller)
    \/ GroupStats(caller)
    \/ Stats(caller)
    \/ ConfigureCredentials(caller)

\* what a refused invocation leaves alone: the ledger tables, the
\* artifacts, the credential state, the processing guard and the group,
\* and no flow that calls the membership API is started
Refused ==
    /\ UNCHANGED <<ledger, disk, credentials_configured, awaiting_credentials,
                   processing, chat>>
    /\ pc'["cmd"] \in {"idle", "cmd_reply"}
    /\ cmdKind' \in {"none", "denied"}

\* C23: /download, /process, /add_missing, /remove_expired, /storage,
\* /group_stats, /stats and /configure sent by a caller outside ADMIN_IDS
\* change no ledger table, no artifact, no credential state and not the
\* processing guard and start no membership call; neither does a text
\* message of a caller for whom no credentials are awaited.
C23_AdminGating ==
    /\ [][\A c \in Callers \ ADMIN_IDS : AdminCommand(c) => Refused]_vars
    /\ [][\A c \in Callers : \A h \in BOOLEAN : \A sv \in BOOLEAN :
            (HandleMessage(c, h, sv) /\ c \notin awaiting_credentials) => Refused]_vars

\* /storage of a caller outside ADMIN_IDS is being answered "Access
\* denied" while artifacts are retained and the ledger holds users
C23_Witness ==
    /\ pc["cmd"] = "cmd_reply"
    /\ cmdKind = "denied"
    /\ DOMAIN files # {}
    /\ DOMAIN users # {}
    /\ StorageInfo(files) \notin storage_usage

\* C35: every users row owns at least one payments row and the owner of
\* every payments row is a users row; the first_name stored for a user is
\* never changed by a later row.
C35_UsersOwnPayments ==
    /\ [](/\ \A u \in DOMAIN users : \E p \in payments : p.user_id = u
          /\ \A p \in payments : p.user_id \in DOMAIN users)
    /\ [][\A u \in DOMAIN users :
             u \in DOMAIN users' /\ users'[u].first_name = users[u].first_name]_vars

\* ------------------------------------------------------------------------
\* process_csv_file on arbitrary exports
\* ------------------------------------------------------------------------
\* the rows of an export, and the payments rows a ledger may hold
MaxRows == 2
MaxPayments == 2

\* the rows the platform can put into an export
PoolRows == UNION {{Pool[a].rows[i] : i \in 1..Len(Pool[a].rows)} : a \in ArtIds}

\* the exports of at most MaxRows rows, with and without a reader failure
\* after the last row
Exports ==
    {Artifact(rs, fail, DatabaseMB) :
        rs \in UNION {[1..n -> PoolRows] : n \in 1..MaxRows}, fail \in BOOLEAN}

\* count = await self.process_csv_file(csv_file) on the export art
ProcessExport(art, free) ==
    /\ Cardinality(payments) < MaxPayments
    /\ free \in 1..(Len(art.rows) + 1)
    /\ dangling \/ free = 1
    /\ LET r == ProcessCsvFile(users, payments, art, now, dangling, free)
       IN /\ users' = r.users
          /\ payments' = r.payments
          /\ dangling' = r.dangling
    /\ UNCHANGED <<aux, group_members, download_history, storage_usage, disk, bot, loops,
                   ingest, chat, now, pc>>

NextRows ==
    \/ GcCollect
    \/ \E art \in Exports : \E free \in 1..(MaxRows + 1) : ProcessExport(art, free)

SpecRows == Init /\ [][NextRows]_vars

\* C32: within one reconciliation execution (add phase followed by remove
\* phase, in the automatic cycle and in /process) no ban_chat_member is
\* issued for a user whom add_chat_member brought into the group in the
\* same execution.
C32_NoAddThenRemove ==
    [][\A t \in Reconcilers : \A ok \in BOOLEAN :
          RemoveCall(t, ok) => cur[t].user_id \notin joined[t]]_vars

\* the handler coroutine of a restarted bot next to the hard-expiry sweep
NextSweep ==
    \/ GcCollect
    \/ \E c \in Callers : ProcessPayments(c)
    \/ ProcessGlob
    \/ \E f \in DOMAIN files : \E k \in 1..(Len(Pool[files[f]].rows) + 1) : ProcessIngest(f, k)
    \/ ProcessHistory
    \/ ProcessEnd
    \/ Commands
    \/ Reconcile("cmd")
    \/ CheckExpiredSubscriptions
    \/ \E t \in {"cmd", "sweep"} : Remove(t)

SpecSweep == InitBacklog /\ [][NextSweep]_vars

\* C33: however the remove executions of the sweep, the automatic cycle,
\* /process and /remove_expired interleave at their awaits, no
\* ban_chat_member is issued for a user whom another remove execution that
\* is still running has banned and who has not been added again.
C33_NoSecondBan ==
    [][\A t \in Executors : \A ok \in BOOLEAN :
          RemoveCall(t, ok)
             => ~\E o \in Executors \ {t} :
                    /\ pc[o] \in {"rem_next", "rem_call", "rem_sleep"}
                    /\ cur[t].user_id \in acted[o]
                    /\ chat[cur[t].user_id] = "kicked"]_vars

\* the state after construction when the database of an earlier run is
\* still there: the second export was ingested, the roster was refreshed
\* while only the first user was listed, and the data directory was emptied
InitSettled ==
    /\ chat = [u \in UserIds |-> IF u = 1 THEN "member" ELSE "left"]
    /\ users = SetInGroup(ProcessCsvFile(<<>>, {}, Pool[2], StartNow, FALSE, 1).users,
                           DOMAIN Roster)
    /\ payments = ProcessCsvFile(<<>>, {}, Pool[2], StartNow, FALSE, 1).payments
    /\ group_members = Roster
    /\ download_history = <<>>
    /\ storage_usage = {}
    /\ files = <<>>
    /\ nextName = 0
    /\ now = StartNow
    /\ processing = FALSE
    /\ credentials_configured \in BOOLEAN
    /\ awaiting_credentials = {}
    /\ dangling = FALSE
    /\ cmds = 0
    /\ pc = [t \in Tasks |-> IF t = "cmd" THEN "idle" ELSE "sleep"]
    /\ cmdKind = "none"
    /\ work = [t \in Tasks |-> {}]
    /\ cur = [t \in Tasks |-> NoRow]
    /\ added = [t \in Tasks |-> 0]
    /\ removed = [t \in Tasks |-> 0]
    /\ batch = {}
    /\ processed_count = 0
    /\ lastIngest = [art |-> 0, count |-> 0]
    /\ clean = [t \in Tasks |-> TRUE]
    /\ fetch_failed = [t \in Tasks |-> FALSE]
    /\ acted = [t \in Tasks |-> {}]
    /\ undelayed = [t \in Tasks |-> FALSE]
    /\ contributed = <<>>
    /\ update_queue = <<>>
    /\ joined = [t \in Tasks |-> {}]
    /\ sent = {}

\* the automatic reconciliation cycle, with either outcome of its roster
\* fetch, next to the hard-expiry sweep
NextSafetyNet ==
    \/ Cycle
    \/ Reconcile("agm")
    \/ Remove("agm")
    \/ CheckExpiredSubscriptions
    \/ Remove("sweep")

\* a coroutine that is running goes on to its next await, and an external
\* call that was awaited returns
Runs(t) ==
    \/ Reconcile(t)
    \/ Remove(t)

\* asyncio's ready queue is first-in first-out: the sweep is resumed after
\* its sleep and after each of its awaits however often the other
\* coroutine becomes runnable, and ban_chat_member does not fail for ever
SpecSafetyNet ==
    /\ InitSettled
    /\ [][NextSafetyNet]_vars
    /\ WF_vars(Cycle)
    /\ WF_vars(Runs("agm"))
    /\ SF_vars(CheckExpiredSubscriptions)
    /\ SF_vars(Remove("sweep"))
    /\ SF_vars(RemoveCall("sweep", TRUE))

\* u is in the group according to the ledger and every completed record
\* of u has expired
AllExpired(u) ==
    /\ u \in DOMAIN users
    /\ users[u].in_group
    /\ \E p \in payments : p.user_id = u /\ p.status = "completed"
    /\ \A p \in payments :
          (p.user_id = u /\ p.status = "completed") => Before(p.expires_date, now)

NextBackoff ==
    \/ \E t \in Cycles : IterationRaises(t)
    \/ \E t \in BackingOff : BackoffEnds(t)
    \/ Cycle
    \/ Reconcile("agm")
    \/ Remove("agm")
    \/ \E removable \in BOOLEAN : \E removable2 \in BOOLEAN :
          AutomatedCsvDownloader(1, removable, removable2)
    \/ CheckExpiredSubscriptions
    \/ Remove("sweep")
    \/ \E d \in SUBSET UserIds : CheckExpiringSubscriptions(d)

SpecBackoff == InitSettled /\ [][NextBackoff]_vars

\* C31: in each of the four cycles, an iteration whose work fails leaves
\* the cycle waiting in the short backoff sleep, and when that sleep ends
\* the next work attempt starts without an interval sleep before it.
C31_BackoffOnly ==
    [][\A t \in Cycles :
          /\ IterationRaises(t) => pc'[t] = "backoff"
          /\ (pc[t] = "backoff" /\ pc'[t] # "backoff") => pc'[t] # "sleep"]_vars

====
